---- MODULE Spec2Model ----
(***************************************************************************)
(* Model of the feed walker, the ledger and the classifier of Dynamic.py   *)
(* (class Dynamic: start, getdata, updylist, init, toDynamicData), of the  *)
(* resumable downloader (downfile), of the media assembler (downvideo,     *)
(* combineVideoAudio, get_web_title, sanitize_filename) and of the         *)
(* relocator (move_files); of the log list and the monitor thread of       *)
(* bilibili_cache.py (class BilibiliCache) and of the start and stop       *)
(* handlers of bilibili_gui.py (class BilibiliCacheGUI).                   *)
(*                                                                         *)
(* The specifications share the module's variables:                        *)
(*   Spec       the polling loop of start() over the producers             *)
(*   SpecPage   getdata started on a given feed, pinned item and ledger    *)
(*   SpecPageLive  SpecPage with a thread that keeps running               *)
(*   SpecSan    sanitize_filename applied to a name and to its result      *)
(*   SpecClass  toDynamicData applied to one raw item                      *)
(*   SpecDown   one call of downfile                                       *)
(*   SpecVideo  one call of downvideo                                      *)
(*   SpecMove   one call of move_files                                     *)
(*   SpecDriver the download calls of start() and their streams            *)
(*   SpecLog    add_log called by two threads                              *)
(*   SpecGui    start_dynamic, stop_dynamic and the run_dynamic threads    *)
(*   SpecMon    the monitor threads of BilibiliCache and their switches    *)
(***************************************************************************)
EXTENDS Integers, Sequences, FiniteSets, TLC

\* ------------------------------------------------------------------ bounds
\* ids of feed items are 1..MaxId, handed out in publishing order
MaxId == 3
\* items of the chronological list the feed source returns per page
PageSize == 2
\* rows one ledger file may hold before the model stops appending to it
MaxRows == 4
\* failures (transport, status, permission, session) injected in one behaviour
MaxFaults == 1
\* bytes of the source downfile fetches
SrcLen == 3
\* attempts the download calls of start() are followed through
MaxTries == 3
\* largest max_retries downfile and downvideo are called with: the caps of
\* their backoffs are passed from the seventh failed attempt on
MaxDownTries == 8
\* max_retries=3 of the two downfile calls of downvideo (lines 649, 652)
StreamTries == 3
\* max_retries=3 of get_web_title (line 571)
TitleTries == 3
\* new items getdata finds for one producer in one pass
MaxNew == 2
\* items in the feed getdata is started on with a given ledger
MaxFeed == 4
\* characters of the names sanitize_filename is applied to
MaxName == 2
\* entries self.logs keeps: the model's stand-in for the limit of 1000
LogLimit == 2
\* calls of add_log in one behaviour
MaxAdds == 7
\* run_dynamic threads, and monitor_dynamics threads, started in one behaviour
MaxStarts == 4

\* CONFIG['bupid']: the producers, visited in this order
bupid == <<1, 2>>
Ups == {bupid[i] : i \in 1..Len(bupid)}

VARIABLES
  \* ---- upstream (the feed source) and the files on disk
  feed,       \* [Ups -> Seq(item)]: a producer's items, newest first
  pinned,     \* [Ups -> 0..MaxId]: id of the producer's pinned item, 0 if none
  nextId,     \* next id the feed source hands out
  disk,       \* [Ups -> Seq(row)]: rows of <dir_path>/<upid>/<upid>.csv
  cfgfile,    \* static/config.json
  \* ---- fields of the Dynamic object
  dyidlist,   \* self.dyidlist: [Ups -> Seq(id)]
  CONFIG,     \* self.CONFIG
  iscomment,  \* self.iscomment
  \* ---- position of start() / getdata()
  pc,         \* "top" | "next" | "page" | "scan" | "crashed" | "exited"; "classify" |
              \* "classified" in SpecClass; "idle" in the other specifications
  idx,        \* index into bupid of the for loop of start()
  offset,     \* params['offset'] (0 models '')
  has_more,   \* has_more of getdata
  items,      \* data['data']['items'] of the page being processed
  todo,       \* items of the page the for loop has not visited yet
  cur,        \* the item handed to toDynamicData last
  dali,       \* what toDynamicData returned for it
  \* ---- history of the current (or last) getdata call
  runLog,     \* its requests, ledger appends, comments and downloads, in order
  runFault,   \* an injected failure happened in it
  outcome,    \* how it ended ("running" while it runs)
  runUp,      \* the producer it was called for
  startDisk,  \* the producer's ledger file when it started
  startMem,   \* the producer's in-memory ledger when it started
  second,     \* the producer's previous call returned cleanly and its feed is unchanged
  prevClean,  \* [Ups -> BOOLEAN]: bookkeeping for second
  faults,     \* failures injected so far
  \* ---- one call of downfile(homeurl, url, filepath, max_retries)
  file,       \* the bytes of filepath, or NoFile
  max_retries,\* its max_retries argument
  attempt,    \* attempts made so far
  headers,    \* headers['Range']: the offset asked for, or NoRange
  ret,        \* "running" | "True" | "raise" | "False"
  slept,      \* the waits between the attempts, in seconds
  initFile,   \* file when downfile was called
  before,     \* file when the last attempt started
  sent,       \* the Range header the last attempt sent
  received,   \* the bytes the last attempt wrote
  err,        \* the exception that ended the last attempt, "none" if none
  \* ---- one call of downvideo(upid, url, max_retries)
  url,        \* its url argument ("" or a video page)
  vmax,       \* its max_retries argument
  vattempt,   \* attempt of its for loop
  vpc,        \* "call" | "title" | "fetch" | "parse" | "video" | "audio" | "combine" | "raised" | "done"
  web_title,  \* what get_web_title returned
  titleReqs,  \* requests get_web_title made
  video_path, \* <bvid>_video.tmp exists
  audio_path, \* <bvid>_audio.tmp exists
  final_path, \* <title>_<bvid>.mp4 exists in the working directory
  move,       \* CONFIG['move_after_combine'] and CONFIG['final_dir']
  moved,      \* the output file is in the final directory
  vret,       \* "running" | "True" | "False"
  raisedBy,   \* the step that raised in the last failed attempt
  mux,        \* "none" | "ok" | "failed": the mux of the current attempt
  muxFails,   \* attempts that failed at the mux
  vslept,     \* the waits between the attempts, in seconds
  streamReqs, \* calls of session.get made so far by the downfile calls of downvideo
  got,        \* the streams whose downfile call returned True in this attempt
  \* ---- one call of move_files(video_path, upid)
  mvpc,       \* "idle" | "call" | "images" | "done"
  mv_video,   \* video_path: "None", "missing" (no such file) or "present"
  final_dir,  \* CONFIG['final_dir'] is not empty
  upid_dir,   \* final_dir/<upid> exists
  work,       \* the image files of the working directory dir_path/<upid>
  dest,       \* the files of final_dir/<upid>
  globbed,    \* files of glob.glob(img_pattern) the for loop has not visited
  mvfailed,   \* files whose shutil.move raised
  mvlog,      \* what move_files logged
  startWork,  \* work when move_files was called
  \* ---- the calls of the download functions start() makes, and their streams
  dpc,        \* "for" | "item" | "call" | "stream" | "end"
  dup,        \* index into bupid of the for loop of start()
  dleft,      \* new items of the page the for loop of getdata has not visited
  dcalls,     \* destination paths the current item still has to be fetched to
  dattempt,   \* attempt of the for loop of the downfile call under way
  streams,    \* the open response streams: path, size read at the start, bytes written
  fsize,      \* size of the current item's files, by kind
  \* ---- sanitize_filename(name), applied to its own result once more
  spc,        \* "idle" | "call" | "once" | "twice"
  name,       \* the argument, a sequence of characters
  safe,       \* sanitize_filename(name)
  safe2,      \* sanitize_filename(safe)
  \* ---- BilibiliCache.add_log called by two threads
  logs,       \* self.logs: the entries, numbered in the order they were appended
  lpc,        \* where each thread is in add_log: "idle" | "len" | "pop"
  nextLog,    \* number of the next entry
  atReturn,   \* self.logs when the add_log call that returned last returned
  \* ---- the GUI: start_dynamic, stop_dynamic and the run_dynamic threads
  is_running,       \* self.is_running
  dynamic_process,  \* self.dynamic_process: a child process, or 0 for None
  pending,          \* run_dynamic threads started that have not reached Popen
  alive,            \* the Dynamic.py child processes that are running
  nextChild,        \* number of the next child process
  \* ---- BilibiliCache: the monitor threads
  running,    \* self.running
  mpc,        \* where each monitor_dynamics thread is: "none" | "while" | "for" |
              \* "item" | "down" | "sleep" | "exited"
  stopSeen,   \* stop_dynamic_monitor was called while the thread was alive
  lateDown    \* threads that called download_video after such a stop

walkerVars == <<feed, pinned, nextId, disk, cfgfile, dyidlist, CONFIG,
                iscomment, pc, idx, offset, has_more, items, todo, cur, dali,
                runLog, runFault, outcome, runUp, startDisk, startMem, second, prevClean,
                faults>>

downVars == <<file, max_retries, attempt, headers, ret, slept, initFile, before, sent,
              received, err>>

videoVars == <<url, vmax, vattempt, vpc, web_title, titleReqs, video_path, audio_path,
               final_path, move, moved, vret, raisedBy, mux, muxFails, vslept,
               streamReqs, got>>

moveVars == <<mvpc, mv_video, final_dir, upid_dir, work, dest, globbed, mvfailed, mvlog,
              startWork>>

driverVars == <<dpc, dup, dleft, dcalls, dattempt, streams, fsize>>

sanVars == <<spc, name, safe, safe2>>

logVars == <<logs, lpc, nextLog, atReturn>>

guiVars == <<is_running, dynamic_process, pending, alive, nextChild>>

monVars == <<running, mpc, stopSeen, lateDown>>

threadVars == <<logVars, guiVars, monVars>>

restVars == <<moveVars, driverVars, sanVars, threadVars>>

mediaVars == <<downVars, videoVars, restVars>>

vars == <<walkerVars, mediaVars>>

\* ------------------------------------------------------------------ helpers
Range(s) == {s[i] : i \in 1..Len(s)}
Reverse(s) == [i \in 1..Len(s) |-> s[Len(s) + 1 - i]]
IsPrefix(s, t) == Len(s) <= Len(t) /\ SubSeq(t, 1, Len(s)) = s
Take(s, n) == SubSeq(s, 1, IF n < Len(s) THEN n ELSE Len(s))
Min(a, b) == IF a < b THEN a ELSE b

\* a file: whether the path exists, and its bytes
NoFile == [exists |-> FALSE, bytes |-> <<>>]
File(bytes) == [exists |-> TRUE, bytes |-> bytes]
\* headers without a 'Range' key
NoRange == -1

\* ------------------------------------------------------------------ raw items
\* What toDynamicData reads of a raw item: its type, whether
\* modules.module_dynamic.desc is an object with a text ("text"), null ("null")
\* or absent ("missing"), and whether modules.module_dynamic.major is an
\* object ("full") or null ("null").
Types == {"DYNAMIC_TYPE_AV", "DYNAMIC_TYPE_DRAW", "DYNAMIC_TYPE_WORD",
          "DYNAMIC_TYPE_FORWARD", "DYNAMIC_TYPE_ARTICLE"}
Shapes == [type : Types, desc : {"text", "null", "missing"}, major : {"full", "null"}]

\* basic.comment_type as the feed source sets it for each type
CommentType(type) ==
  CASE type = "DYNAMIC_TYPE_AV" -> 1
    [] type = "DYNAMIC_TYPE_DRAW" -> 11
    [] type = "DYNAMIC_TYPE_ARTICLE" -> 12
    [] OTHER -> 17

\* basic.comment_id_str: the id of the comment area, distinct from id_str
CommentId(id) == id + 100

RawItem(id, shape) ==
  [id_str |-> id, comment_id_str |-> CommentId(id), comment_type |-> CommentType(shape.type),
   type |-> shape.type, desc |-> shape.desc, major |-> shape.major, tag |-> ""]

NoItem == RawItem(0, [type |-> "", desc |-> "", major |-> ""])

\* ------------------------------------------------------------------ classifier
\* Dynamic.datajson
datajson == [id |-> 0, aid |-> 0, comment_type |-> 0, type |-> "", title |-> "",
             text |-> "", imagepath |-> <<>>, videopath |-> ""]

Raised == [raised |-> TRUE, da |-> datajson]
Returned(da) == [raised |-> FALSE, da |-> da]

\* the image branch reading major['draw'] without the test for null
toDynamicData_NoNullTest(item) ==
  LET da == [datajson EXCEPT !.id = item.id_str, !.aid = item.comment_id_str,
                             !.comment_type = item.comment_type, !.type = item.type]
  IN CASE item.type = "DYNAMIC_TYPE_AV" ->
            LET a == IF item.desc = "text" THEN "post:desc" ELSE ""
            IN IF item.major = "null"
               THEN Raised
               ELSE Returned([da EXCEPT !.title = IF a = "" THEN "archive.title"
                                                  ELSE "post:desc+archive.title",
                                         !.text = "archive.desc",
                                         !.imagepath = <<"archive.cover">>,
                                         !.videopath = "https:archive.jump_url"])
       [] item.type = "DYNAMIC_TYPE_DRAW" ->
            IF item.desc # "text" \/ item.major = "null"
            THEN Raised
            ELSE Returned([da EXCEPT !.title = "draw", !.text = "desc.text",
                                     !.imagepath = <<"draw.src1", "draw.src2">>])
       [] item.type = "DYNAMIC_TYPE_WORD" ->
            IF item.desc # "text"
            THEN Raised
            ELSE Returned([da EXCEPT !.title = "word", !.text = "desc.text"])
       [] item.type = "DYNAMIC_TYPE_FORWARD" ->
            IF item.desc # "text"
            THEN Raised
            ELSE Returned([da EXCEPT !.title = "forward:orig.id_str", !.text = "desc.text"])
       [] OTHER -> Returned([da EXCEPT !.text = "unsupported"])

toDynamicData(item) ==
  LET da == [datajson EXCEPT !.id = item.id_str, !.aid = item.comment_id_str,
                             !.comment_type = item.comment_type, !.type = item.type]
  IN CASE item.type = "DYNAMIC_TYPE_AV" ->
            \* desc null (TypeError) or absent (KeyError) is caught: a = ''
            LET a == IF item.desc = "text" THEN "post:desc" ELSE ""
            IN IF item.major = "null"
               THEN Raised
               ELSE Returned([da EXCEPT !.title = IF a = "" THEN "archive.title"
                                                  ELSE "post:desc+archive.title",
                                         !.text = "archive.desc",
                                         !.imagepath = <<"archive.cover">>,
                                         !.videopath = "https:archive.jump_url"])
       [] item.type = "DYNAMIC_TYPE_DRAW" ->
            IF item.desc # "text"
            THEN Raised
            ELSE Returned([da EXCEPT !.title = "draw", !.text = "desc.text",
                                     !.imagepath = IF item.major # "null"
                                                   THEN <<"draw.src1", "draw.src2">>
                                                   ELSE <<>>])
       [] item.type = "DYNAMIC_TYPE_WORD" ->
            IF item.desc # "text"
            THEN Raised
            ELSE Returned([da EXCEPT !.title = "word", !.text = "desc.text"])
       [] item.type = "DYNAMIC_TYPE_FORWARD" ->
            IF item.desc # "text"
            THEN Raised
            ELSE Returned([da EXCEPT !.title = "forward:orig.id_str", !.text = "desc.text"])
       [] OTHER -> Returned([da EXCEPT !.text = "unsupported"])


\* ------------------------------------------------------------------ feed source
\* The space feed: the first page opens with the pinned item, if there is one,
\* followed by the other items newest first, PageSize to a page; the cursor of
\* a page is the id of its last item.
Tagged(it, t) == [it EXCEPT !.tag = t]

Chron(up) ==
  LET NotPinned(it) == it.id_str # pinned[up]
  IN SelectSeq(feed[up], NotPinned)

PinnedItems(up) ==
  LET IsPinned(it) == it.id_str = pinned[up]
  IN SelectSeq(feed[up], IsPinned)

PageItems(up, off) ==
  IF off = 0
  THEN LET head == IF PinnedItems(up) # <<>>
                   THEN <<Tagged(PinnedItems(up)[1], "pinned")>> ELSE <<>>
       IN head \o Take(Chron(up), PageSize)
  ELSE LET Older(it) == it.id_str < off
       IN Take(SelectSeq(Chron(up), Older), PageSize)

\* the part of a page that comes from the chronological list
PageBody(up, off) ==
  LET NotPinned(it) == it.tag # "pinned"
  IN SelectSeq(PageItems(up, off), NotPinned)

\* data['data']['offset'] of the response: the id of the last item delivered
\* from the chronological list
ResponseOffset(up, off) ==
  LET b == PageBody(up, off)
  IN IF b = <<>> THEN off ELSE b[Len(b)].id_str

\* the cursor of the request is never replaced
PageOffset_Keep(up, off) == off

\* params['offset'] = data['data']['offset'] (lines 465-466)
PageOffset(up, off) == ResponseOffset(up, off)

PageHasMore(up, off) ==
  \E i \in 1..Len(Chron(up)) : Chron(up)[i].id_str < ResponseOffset(up, off)
                               /\ PageBody(up, off) # <<>>

\* ------------------------------------------------------------------ ledger
\* the row written to a file opened in mode 'w': the file is truncated first
AppendRow_Truncate(rows, da) == <<da>>

\* csv.DictWriter(...).writerow(dali) on a file opened in mode 'a'
AppendRow(rows, da) == Append(rows, da)

\* the ids csv.DictReader yields for a ledger file (ro['id'] of every row)
ReadIds(rows) == [i \in 1..Len(rows) |-> rows[i].id]

\* updylist(upid): the in-memory ledger and CONFIG it leaves
updylistMem(mem, up) == [mem EXCEPT ![up] = ReadIds(disk[up])]
updylistCfg(cfg, up) ==
  IF disk[up] = <<>> THEN cfg ELSE [cfg EXCEPT !.downatfirst = cfg.autodownload]

RECURSIVE updyAllCfg(_, _)
updyAllCfg(cfg, i) ==
  IF i > Len(bupid) THEN cfg ELSE updyAllCfg(updylistCfg(cfg, bupid[i]), i + 1)

\* init() with a valid session: CONFIG reloaded from static/config.json,
\* iscomment cleared, every producer's ledger reloaded
initCfg == updyAllCfg(cfgfile, 1)
initMem == [up \in Ups |-> ReadIds(disk[up])]

\* ------------------------------------------------------------------ log of a run
Ev(e, id) == [e |-> e, id |-> id]
HasEv(log, kinds) == \E i \in 1..Len(log) : log[i].e \in kinds

\* ------------------------------------------------------------------ start()
up == IF idx \in 1..Len(bupid) THEN bupid[idx] ELSE 0

upstreamVars == <<feed, pinned, nextId, cfgfile>>
pageVars == <<offset, has_more, items, todo>>
histVars == <<runUp, startDisk, startMem, second>>
runVars == <<cur, dali, runLog, runFault, outcome>>

\* one more injected failure
Inject == faults < MaxFaults /\ faults' = faults + 1

\* the record of the last getdata call is dropped
Forget ==
  /\ offset' = 0 /\ has_more' = FALSE /\ items' = <<>> /\ todo' = <<>>
  /\ cur' = NoItem /\ dali' = Returned(datajson)
  /\ runLog' = <<>> /\ runFault' = FALSE /\ outcome' = "none"
  /\ runUp' = 0 /\ startDisk' = <<>> /\ startMem' = <<>> /\ second' = FALSE

\* getdata returns to the for loop of start(), which sleeps and goes on
Return(how) ==
  /\ outcome' = how
  /\ pc' = "next"
  /\ idx' = idx + 1
  /\ prevClean' = [prevClean EXCEPT ![up] = how \in {"stopped", "exhausted"} /\ ~runFault']

\* an exception nothing catches leaves getdata and start(): the process ends
Crash(how) ==
  /\ outcome' = how
  /\ pc' = "crashed"
  /\ runFault' = TRUE
  /\ prevClean' = [u \in Ups |-> FALSE]
  /\ UNCHANGED idx

\* top of the while loop: the for loop over CONFIG['bupid'] begins
CycleStart ==
  /\ pc = "top"
  /\ pc' = "next"
  /\ idx' = 1
  /\ UNCHANGED <<mediaVars, upstreamVars, disk, dyidlist, CONFIG, iscomment, pageVars, cur, dali,
                 runLog, runFault, outcome, histVars, prevClean, faults>>

\* the for loop is over: comments are enabled after the first pass
CycleEnd ==
  /\ pc = "next"
  /\ idx > Len(bupid)
  /\ pc' = "top"
  /\ iscomment' = TRUE
  /\ CONFIG' = IF iscomment THEN CONFIG ELSE [CONFIG EXCEPT !.downatfirst = CONFIG.autodownload]
  /\ Forget
  /\ UNCHANGED <<mediaVars, upstreamVars, disk, dyidlist, idx, prevClean, faults>>

\* ------------------------------------------------------------------ getdata
BeginRun(log) ==
  /\ runLog' = log
  /\ runUp' = up
  /\ startDisk' = disk[up]
  /\ startMem' = dyidlist[up]
  /\ second' = prevClean[up]
  /\ cur' = NoItem
  /\ dali' = Returned(datajson)
  /\ offset' = 0
  /\ items' = <<>>
  /\ todo' = <<>>

\* the first request (in the try): its response is not looked at
ProbeOk ==
  /\ pc = "next"
  /\ idx <= Len(bupid)
  /\ BeginRun(<<Ev("probe", 0)>>)
  /\ runFault' = FALSE
  /\ outcome' = "running"
  /\ pc' = "page"
  /\ has_more' = TRUE
  /\ UNCHANGED <<mediaVars, upstreamVars, disk, dyidlist, CONFIG, iscomment, idx, prevClean, faults>>

\* RequestException on the first request: logged, getdata returns
ProbeFail ==
  /\ pc = "next"
  /\ idx <= Len(bupid)
  /\ Inject
  /\ BeginRun(<<Ev("probe", 0), Ev("log", 0)>>)
  /\ runFault' = TRUE
  /\ has_more' = FALSE
  /\ Return("transport")
  /\ UNCHANGED <<mediaVars, upstreamVars, disk, dyidlist, CONFIG, iscomment>>

\* the later request, in the while loop, raises: nothing catches it
PageTransportError ==
  /\ pc = "page"
  /\ Inject
  /\ runLog' = Append(runLog, Ev("page", offset))
  /\ Crash("transport")
  /\ UNCHANGED <<mediaVars, upstreamVars, disk, dyidlist, CONFIG, iscomment, pageVars, cur, dali, histVars>>

\* data['code'] != 0 logged, then the same page asked for again
PageBadCode_Retry(cookieOk) ==
  /\ pc = "page"
  /\ cookieOk
  /\ faults < MaxFaults /\ faults' = faults + 1
  /\ runLog' = runLog \o <<Ev("page", offset), Ev("code", 1), Ev("log", 0)>>
  /\ runFault' = TRUE
  /\ UNCHANGED <<mediaVars, upstreamVars, disk, dyidlist, CONFIG, iscomment, pc, idx,
                 pageVars, cur, dali, outcome, histVars, prevClean>>

\* data['code'] != 0: log, init(), return.  init() ends the process when the
\* session cannot be validated (cookieOk = FALSE).
PageBadCode(cookieOk) ==
  /\ pc = "page"
  /\ Inject
  /\ runLog' = runLog \o <<Ev("page", offset), Ev("code", 1), Ev("log", 0), Ev("init", 0)>>
  /\ runFault' = TRUE
  /\ iscomment' = FALSE
  /\ IF cookieOk
     THEN /\ CONFIG' = initCfg
          /\ dyidlist' = initMem
          /\ Return("badcode")
     ELSE /\ CONFIG' = cfgfile
          /\ dyidlist' = [u \in Ups |-> <<>>]
          /\ outcome' = "badcode"
          /\ pc' = "exited"
          /\ prevClean' = [u \in Ups |-> FALSE]
          /\ UNCHANGED idx
  /\ UNCHANGED <<mediaVars, upstreamVars, disk, pageVars, cur, dali, histVars>>

\* a pinned first item tested like any other first item
PinnedStop_AsPlain(its, mem) ==
  IF mem # <<>> /\ its[1].id_str = mem[Len(mem)] THEN "stop" ELSE "scan"

\* the boundary test of a page whose first item is pinned (lines 476-478);
\* "IndexError" when the page has no second item to look at
PinnedStop(its, mem) ==
  IF mem # <<>> /\ its[1].id_str \in Range(mem)
  THEN IF Len(its) < 2 THEN "IndexError"
       ELSE IF its[2].id_str \in Range(mem) THEN "stop" ELSE "scan"
  ELSE "scan"

\* the boundary test of a page whose first item is not pinned (lines 485-486)
PlainStop(its, mem) ==
  IF mem # <<>> /\ its[1].id_str = mem[Len(mem)] THEN "stop" ELSE "scan"

Boundary(its, mem) ==
  IF its = <<>> THEN "IndexError"
  ELSE IF its[1].tag = "pinned" THEN PinnedStop(its, mem) ELSE PlainStop(its, mem)

\* the page visited in feed order
ScanOrder_Forward(its) == its

\* data['data']['items'][::-1]: the order the for loop visits a page in
ScanOrder(its) == Reverse(its)

\* a boundary test that fired returns whether or not more pages follow
StopRule_Return(more) == Return("stopped")

\* a boundary test fired: `if not has_more: return`, else `continue`
\* (lines 480-482 and 488-490)
StopRule(more) ==
  IF more THEN pc' = "page" /\ UNCHANGED <<idx, outcome, prevClean>>
  ELSE Return("stopped")

\* a page arrives with code 0
PageOk ==
  /\ pc = "page"
  /\ LET its == PageItems(up, offset)
         more == PageHasMore(up, offset)
         b == Boundary(its, dyidlist[up])
     IN /\ items' = its
        /\ has_more' = more
        /\ offset' = PageOffset(up, offset)
        /\ CASE b = "IndexError" ->
                  /\ runLog' = Append(runLog, Ev("page", offset))
                  /\ todo' = <<>>
                  /\ Crash("IndexError")
             [] b = "stop" ->
                  /\ runLog' = runLog \o <<Ev("page", offset), Ev("log", 0)>>
                  /\ todo' = <<>>
                  /\ runFault' = runFault
                  /\ StopRule(more)
             [] OTHER ->
                  /\ runLog' = Append(runLog, Ev("page", offset))
                  /\ todo' = ScanOrder(its)
                  /\ pc' = "scan"
                  /\ UNCHANGED <<idx, outcome, prevClean, runFault>>
  /\ UNCHANGED <<mediaVars, upstreamVars, disk, dyidlist, CONFIG, iscomment, cur, dali, histVars, faults>>

\* the comment posted whatever iscomment is
SideEffects_CommentAlways(da) ==
  (IF CONFIG.autocomment # "" THEN <<Ev("comment", da.id)>> ELSE <<>>)
  \o (IF CONFIG.downatfirst /\ CONFIG.autodownload
      THEN (IF da.imagepath # <<>> THEN <<Ev("img", da.id)>> ELSE <<>>)
           \o (IF da.videopath # "" THEN <<Ev("video", da.id)>> ELSE <<>>)
      ELSE <<>>)

\* what the loop body does for a new item after its row is written:
\* comment, downimage, downvideo (lines 524-537)
SideEffects(da) ==
  (IF iscomment /\ CONFIG.autocomment # "" THEN <<Ev("comment", da.id)>> ELSE <<>>)
  \o (IF CONFIG.downatfirst /\ CONFIG.autodownload
      THEN (IF da.imagepath # <<>> THEN <<Ev("img", da.id)>> ELSE <<>>)
           \o (IF da.videopath # "" THEN <<Ev("video", da.id)>> ELSE <<>>)
      ELSE <<>>)

\* one pass of the for loop over the reversed page.  perm: the ledger file
\* cannot be opened (PermissionError).
ScanItem(perm) ==
  /\ pc = "scan"
  /\ todo # <<>>
  /\ LET item == Head(todo)
         r == toDynamicData(item)
     IN /\ cur' = item
        /\ dali' = r
        /\ todo' = Tail(todo)
        /\ IF r.raised
           THEN /\ ~perm
                /\ runLog' = runLog
                /\ Crash("classify")
                /\ UNCHANGED <<disk, faults>>
           ELSE IF r.da.id \in Range(dyidlist[up])
           THEN /\ ~perm
                /\ UNCHANGED <<disk, runLog, runFault, pc, idx, outcome, prevClean, faults>>
           ELSE /\ IF perm
                   THEN /\ Inject
                        /\ disk' = disk
                        /\ runFault' = TRUE
                        /\ runLog' = runLog \o <<Ev("permission", r.da.id)>> \o SideEffects(r.da)
                   ELSE /\ Len(disk[up]) < MaxRows
                        /\ disk' = [disk EXCEPT ![up] = AppendRow(@, r.da)]
                        /\ runFault' = runFault
                        /\ runLog' = runLog \o <<Ev("row", r.da.id)>> \o SideEffects(r.da)
                        /\ UNCHANGED faults
                /\ UNCHANGED <<pc, idx, outcome, prevClean>>
  /\ UNCHANGED <<mediaVars, upstreamVars, dyidlist, CONFIG, iscomment, offset, has_more, items, histVars>>

\* the page is done: leave the loop and reload the ledger, or sleep and go on
ScanEnd ==
  /\ pc = "scan"
  /\ todo = <<>>
  /\ runFault' = runFault
  /\ IF has_more
     THEN /\ runLog' = Append(runLog, Ev("sleep", 0))
          /\ pc' = "page"
          /\ UNCHANGED <<dyidlist, CONFIG, idx, outcome, prevClean>>
     ELSE /\ runLog' = runLog
          /\ dyidlist' = updylistMem(dyidlist, up)
          /\ CONFIG' = updylistCfg(CONFIG, up)
          /\ Return("exhausted")
  /\ UNCHANGED <<mediaVars, upstreamVars, disk, iscomment, pageVars, cur, dali, histVars, faults>>

\* ------------------------------------------------------------------ environment
\* the shapes of item the feeds of this specification hold
FeedShapes ==
  {[type |-> "DYNAMIC_TYPE_AV", desc |-> "null", major |-> "full"],
   [type |-> "DYNAMIC_TYPE_WORD", desc |-> "text", major |-> "null"],
   [type |-> "DYNAMIC_TYPE_WORD", desc |-> "null", major |-> "null"],
   [type |-> "DYNAMIC_TYPE_ARTICLE", desc |-> "null", major |-> "full"]}

\* the shapes of the one item the other producers' feeds hold
OtherShapes ==
  {[type |-> "DYNAMIC_TYPE_AV", desc |-> "null", major |-> "full"],
   [type |-> "DYNAMIC_TYPE_WORD", desc |-> "text", major |-> "null"]}

\* static/config.json.  down-atfirst is rewritten to autodownload as the
\* program runs (updylist, start), so these two files take CONFIG through all
\* four pairs of autodownload and down-atfirst.
Configs ==
  {[autodownload |-> TRUE, downatfirst |-> FALSE, autocomment |-> "text"],
   [autodownload |-> FALSE, downatfirst |-> TRUE, autocomment |-> ""]}

\* the first producer publishes an item while the loop sleeps (the feeds of
\* the other producers keep the one item they start with)
Publish(shape) ==
  /\ pc = "top"
  /\ nextId <= MaxId
  /\ feed' = [feed EXCEPT ![bupid[1]] = <<RawItem(nextId, shape)>> \o @]
  /\ nextId' = nextId + 1
  /\ prevClean' = [prevClean EXCEPT ![bupid[1]] = FALSE]
  /\ UNCHANGED <<mediaVars, pinned, cfgfile, disk, dyidlist, CONFIG, iscomment, pc,
                 idx, pageVars, runVars, histVars, faults>>

\* the first producer pins its oldest item
Pin ==
  /\ pc = "top"
  /\ pinned[bupid[1]] = 0
  /\ feed[bupid[1]] # <<>>
  /\ pinned' = [pinned EXCEPT ![bupid[1]] = feed[bupid[1]][Len(feed[bupid[1]])].id_str]
  /\ prevClean' = [prevClean EXCEPT ![bupid[1]] = FALSE]
  /\ UNCHANGED <<mediaVars, feed, nextId, cfgfile, disk, dyidlist, CONFIG, iscomment, pc,
                 idx, pageVars, runVars, histVars, faults>>

\* no call of downfile is under way
DownIdle ==
  /\ file = NoFile /\ max_retries = 0 /\ attempt = 0 /\ headers = NoRange
  /\ ret = "none" /\ slept = <<>> /\ initFile = NoFile /\ before = NoFile
  /\ sent = NoRange /\ received = <<>> /\ err = "none"

\* no call of downvideo is under way
VideoIdle ==
  /\ url = "" /\ vmax = 0 /\ vattempt = 0 /\ vpc = "idle" /\ web_title = ""
  /\ titleReqs = 0 /\ video_path = FALSE /\ audio_path = FALSE /\ final_path = FALSE
  /\ move = FALSE /\ moved = FALSE /\ vret = "none" /\ raisedBy = "none"
  /\ mux = "none" /\ muxFails = 0 /\ vslept = <<>> /\ streamReqs = 0 /\ got = {}

\* no call of move_files is under way
MoveIdle ==
  /\ mvpc = "idle" /\ mv_video = "None" /\ final_dir = FALSE /\ upid_dir = FALSE
  /\ work = {} /\ dest = {} /\ globbed = {} /\ mvfailed = {} /\ mvlog = <<>>
  /\ startWork = {}

\* the calls of the download functions are not followed
DriverIdle ==
  /\ dpc = "idle" /\ dup = 1 /\ dleft = 0 /\ dcalls = <<>> /\ dattempt = 0
  /\ streams = {} /\ fsize = [k \in {"img", "video", "audio"} |-> 0]

\* sanitize_filename is not followed
SanIdle == spc = "idle" /\ name = <<>> /\ safe = <<>> /\ safe2 = <<>>

\* the threads that call add_log
LogThreads == {"caller", "monitor"}

\* the monitor threads a behaviour may start
MonThreads == 1..MaxStarts

\* nobody is inside add_log
LogIdle ==
  /\ logs = <<>> /\ lpc = [t \in LogThreads |-> "idle"] /\ nextLog = 1 /\ atReturn = <<>>

\* BilibiliCacheGUI.__init__ (lines 73-75)
GuiIdle ==
  /\ is_running = FALSE /\ dynamic_process = 0 /\ pending = 0 /\ alive = {}
  /\ nextChild = 1

\* BilibiliCache.__init__: running = False, no monitor thread
MonIdle ==
  /\ running = FALSE /\ mpc = [t \in MonThreads |-> "none"]
  /\ stopSeen = {} /\ lateDown = {}

ThreadIdle == LogIdle /\ GuiIdle /\ MonIdle

RestIdle == MoveIdle /\ DriverIdle /\ SanIdle /\ ThreadIdle

Init ==
  /\ DownIdle
  /\ VideoIdle
  /\ RestIdle
  /\ \E shape \in OtherShapes :
       feed = [u \in Ups |-> IF u = bupid[1] THEN <<>> ELSE <<RawItem(MaxId + u, shape)>>]
  /\ pinned = [u \in Ups |-> 0]
  /\ nextId = 1
  /\ disk = [u \in Ups |-> <<>>]
  /\ cfgfile \in Configs
  /\ dyidlist = [u \in Ups |-> <<>>]
  /\ CONFIG = cfgfile
  /\ iscomment = FALSE
  /\ pc = "top"
  /\ idx = 1
  /\ offset = 0
  /\ has_more = FALSE
  /\ items = <<>>
  /\ todo = <<>>
  /\ cur = NoItem
  /\ dali = Returned(datajson)
  /\ runLog = <<>>
  /\ runFault = FALSE
  /\ outcome = "none"
  /\ runUp = 0
  /\ startDisk = <<>>
  /\ startMem = <<>>
  /\ second = FALSE
  /\ prevClean = [u \in Ups |-> FALSE]
  /\ faults = 0

Next ==
  \/ CycleStart
  \/ CycleEnd
  \/ ProbeOk
  \/ ProbeFail
  \/ PageTransportError
  \/ \E cookieOk \in BOOLEAN : PageBadCode(cookieOk)
  \/ PageOk
  \/ \E perm \in BOOLEAN : ScanItem(perm)
  \/ ScanEnd
  \/ \E shape \in FeedShapes : Publish(shape)
  \/ Pin

Spec == Init /\ [][Next]_vars

\* ------------------------------------------------------------------ SpecPage
\* getdata for one producer whose feed, pinned item and ledger are given:
\* the feed holds the items n, ..., 1, any one of them may be pinned, and the
\* ledger holds the k oldest of them, as earlier complete syncs left it.
FeedOf(n) == [i \in 1..n |-> RawItem(n + 1 - i, [type |-> "DYNAMIC_TYPE_AV", desc |-> "null", major |-> "full"])]
RowsOf(k) == [i \in 1..k |-> toDynamicData(FeedOf(k)[k + 1 - i]).da]

InitPage ==
  /\ DownIdle
  /\ VideoIdle
  /\ RestIdle
  /\ \E n \in 0..MaxFeed : \E p, k \in 0..n :
       /\ feed = [u \in Ups |-> IF u = bupid[1] THEN FeedOf(n) ELSE <<>>]
       /\ pinned = [u \in Ups |-> IF u = bupid[1] THEN p ELSE 0]
       /\ disk = [u \in Ups |-> IF u = bupid[1] THEN RowsOf(k) ELSE <<>>]
       /\ dyidlist = [u \in Ups |-> ReadIds(disk[u])]
  /\ nextId = MaxFeed + 1
  /\ cfgfile \in Configs
  /\ CONFIG = cfgfile
  /\ iscomment = FALSE
  /\ pc = "next"
  /\ idx = 1
  /\ offset = 0
  /\ has_more = FALSE
  /\ items = <<>>
  /\ todo = <<>>
  /\ cur = NoItem
  /\ dali = Returned(datajson)
  /\ runLog = <<>>
  /\ runFault = FALSE
  /\ outcome = "none"
  /\ runUp = 0
  /\ startDisk = <<>>
  /\ startMem = <<>>
  /\ second = FALSE
  /\ prevClean = [u \in Ups |-> FALSE]
  /\ faults = 0

NextPage ==
  \/ idx = 1 /\ ProbeOk
  \/ PageOk
  \/ ScanItem(FALSE)
  \/ ScanEnd

SpecPage == InitPage /\ [][NextPage]_vars

\* the thread inside getdata keeps running until getdata returns or raises
SpecPageLive == SpecPage /\ WF_vars(NextPage)

\* ------------------------------------------------------------------ SpecClass
\* the walker at rest, but for pc and cur
WalkerRest ==
  /\ feed = [u \in Ups |-> <<>>]
  /\ pinned = [u \in Ups |-> 0]
  /\ nextId = 1
  /\ disk = [u \in Ups |-> <<>>]
  /\ cfgfile = [autodownload |-> FALSE, downatfirst |-> FALSE, autocomment |-> ""]
  /\ dyidlist = [u \in Ups |-> <<>>]
  /\ CONFIG = cfgfile
  /\ iscomment = FALSE
  /\ idx = 1
  /\ offset = 0 /\ has_more = FALSE /\ items = <<>> /\ todo = <<>>
  /\ dali = Returned(datajson)
  /\ runLog = <<>> /\ runFault = FALSE /\ outcome = "none"
  /\ runUp = 0 /\ startDisk = <<>> /\ startMem = <<>> /\ second = FALSE
  /\ prevClean = [u \in Ups |-> FALSE]
  /\ faults = 0

WalkerIdle == WalkerRest /\ pc = "idle" /\ cur = NoItem

\* one raw item of any shape, pinned or not
InitClass ==
  /\ WalkerRest
  /\ DownIdle
  /\ VideoIdle
  /\ RestIdle
  /\ pc = "classify"
  /\ \E id \in 1..MaxId, shape \in Shapes, tag \in {"", "pinned"} :
       cur = Tagged(RawItem(id, shape), tag)

\* dali = self.toDynamicData(item)
Classify ==
  /\ pc = "classify"
  /\ dali' = toDynamicData(cur)
  /\ pc' = "classified"
  /\ UNCHANGED <<mediaVars, upstreamVars, disk, dyidlist, CONFIG, iscomment, idx, pageVars,
                 cur, runLog, runFault, outcome, histVars, prevClean, faults>>

NextClass == Classify

SpecClass == InitClass /\ [][NextClass]_vars

\* ------------------------------------------------------------------ SpecDown
\* the bytes a fresh download of the source produces
Source == [i \in 1..SrcLen |-> i]

\* the server: a range request that starts at or after the end of the source
\* is answered 416, any other request with the bytes from its offset on; the
\* content-length it reports is the length of that body
Serve(range) ==
  IF range # NoRange /\ range >= SrcLen
  THEN [status |-> 416, body |-> <<>>]
  ELSE [status |-> IF range = NoRange THEN 200 ELSE 206,
        body |-> SubSeq(Source, (IF range = NoRange THEN 0 ELSE range) + 1, SrcLen)]

\* a request that always asks for the source from its first byte
RangeHeader_FromZero(hdr, exists, size) == 0

\* headers['Range'] after the resume check of an attempt (lines 776-778)
RangeHeader(hdr, exists, size) == IF exists THEN size ELSE hdr

\* open(filepath, mode) and the writes of the chunks
FileWrite(f, downloaded, chunk) ==
  File((IF downloaded # 0 THEN f.bytes ELSE <<>>) \o chunk)

\* a size test that lets every file pass
Incomplete_Never(total_size, size) == FALSE

\* the integrity test after the stream (line 798): the file is not as long as
\* the content-length plus the bytes that were there
Incomplete(total_size, size) == total_size > 0 /\ size # total_size

\* an except clause that lets the last attempt fall through to return True
Retry_ReportSuccess(wait) ==
  IF attempt < max_retries - 1
  THEN slept' = Append(slept, wait) /\ ret' = ret
  ELSE slept' = slept /\ ret' = "True"

\* the wait after a timeout without the cap
TimeoutWait_Uncapped(n) == (n + 1) * 5

\* wait_time = min((attempt + 1) * 5, 30) (line 806)
TimeoutWait(n) == Min((n + 1) * 5, 30)

\* the retry tail of an except clause: wait and go on, or re-raise
Retry(wait) ==
  IF attempt < max_retries - 1
  THEN slept' = Append(slept, wait) /\ ret' = ret
  ELSE slept' = slept /\ ret' = "raise"

\* one attempt of the for loop.  o is what happens to the request: "timeout"
\* (requests Timeout before the response), "error" (no connection), "cut" (the
\* stream breaks after k bytes), "short" (the stream ends after k bytes
\* without an error), "full" (the whole body arrives).
DownAttempt(o, k) ==
  /\ ret = "running"
  /\ attempt < max_retries
  /\ LET downloaded == IF file.exists THEN Len(file.bytes) ELSE 0
         hdr == RangeHeader(headers, file.exists, Len(file.bytes))
         resp == Serve(hdr)
         chunk == SubSeq(resp.body, 1, k)
         written == FileWrite(file, downloaded, chunk)
         total_size == Len(resp.body) + downloaded
     IN /\ headers' = hdr
        /\ sent' = hdr
        /\ before' = file
        /\ attempt' = attempt + 1
        /\ CASE o = "timeout" ->
                  /\ k = 0
                  /\ file' = file /\ received' = <<>> /\ err' = "Timeout"
                  /\ Retry(TimeoutWait(attempt))
             [] o = "error" ->
                  /\ k = 0
                  /\ file' = file /\ received' = <<>> /\ err' = "ConnectionError"
                  /\ Retry(5)
             [] resp.status = 416 ->
                  \* response.raise_for_status()
                  /\ o = "full" /\ k = 0
                  /\ file' = file /\ received' = <<>> /\ err' = "HTTPError"
                  /\ Retry(5)
             [] o = "cut" ->
                  /\ k < Len(resp.body)
                  /\ file' = written /\ received' = chunk /\ err' = "ConnectionError"
                  /\ Retry(5)
             [] OTHER ->
                  /\ o \in {"short", "full"}
                  /\ IF o = "full" THEN k = Len(resp.body) ELSE k < Len(resp.body)
                  /\ file' = written /\ received' = chunk
                  /\ IF Incomplete(total_size, Len(written.bytes))
                     THEN err' = "ValueError" /\ Retry(5)
                     ELSE err' = "none" /\ ret' = "True" /\ slept' = slept
  /\ UNCHANGED <<walkerVars, videoVars, restVars, max_retries, initFile>>

\* the for loop ends without an attempt (max_retries <= 0): return False
DownfileEnd ==
  /\ ret = "running"
  /\ attempt >= max_retries
  /\ ret' = "False"
  /\ UNCHANGED <<walkerVars, videoVars, restVars, file, max_retries, attempt, headers, slept,
                 initFile, before, sent, received, err>>

\* downfile is called on a destination that does not exist or holds the
\* first N bytes of the source, 0 <= N <= SrcLen
InitDown ==
  /\ WalkerIdle
  /\ VideoIdle
  /\ RestIdle
  /\ file \in {NoFile} \cup {File(SubSeq(Source, 1, n)) : n \in 0..SrcLen}
  /\ max_retries \in 0..MaxDownTries
  /\ attempt = 0
  /\ headers = NoRange
  /\ ret = "running"
  /\ slept = <<>>
  /\ initFile = file
  /\ before = file
  /\ sent = NoRange
  /\ received = <<>>
  /\ err = "none"

NextDown ==
  \/ \E o \in {"timeout", "error", "cut", "short", "full"}, k \in 0..SrcLen : DownAttempt(o, k)
  \/ DownfileEnd

SpecDown == InitDown /\ [][NextDown]_vars

\* ------------------------------------------------------------------ SpecVideo
\* a step of the try block raises: control goes to the except clause
Raise(step) == raisedBy' = step /\ vpc' = "raised"

\* if not url: return False; else get_web_title(url) is called
VCall ==
  /\ vpc = "call"
  /\ IF url = ""
     THEN vret' = "False" /\ vpc' = "done"
     ELSE vret' = vret /\ vpc' = "title"
  /\ UNCHANGED <<walkerVars, downVars, restVars, streamReqs, got, url, vmax, vattempt, web_title,
                 titleReqs, video_path, audio_path, final_path, move, moved, raisedBy, mux,
                 muxFails, vslept>>

\* the content identifier: url.split('/')[-2]
bvid(u) == IF u = "https://www.bilibili.com/video/bvid/" THEN "bvid" ELSE ""

\* get_web_title lets the exception of its last attempt go
TitleFailed_Raise(u) ==
  /\ vret' = "raise" /\ vpc' = "done"
  /\ UNCHANGED web_title

\* except: after the last attempt the fallback name is returned, before it
\* the loop sleeps and goes round (lines 580-584)
TitleFailed(u) ==
  /\ vret' = vret
  /\ IF titleReqs' = TitleTries
     THEN web_title' = "untitled_" \o bvid(u) /\ vpc' = "fetch"
     ELSE web_title' = web_title /\ vpc' = vpc

\* one pass of the for loop of get_web_title: the request, then the title of
\* the page is returned, or the request or the parsing raises
VTitle(ok) ==
  /\ vpc = "title"
  /\ titleReqs < TitleTries
  /\ titleReqs' = titleReqs + 1
  /\ IF ok
     THEN web_title' = "title" /\ vpc' = "fetch" /\ vret' = vret
     ELSE TitleFailed(url)
  /\ UNCHANGED <<walkerVars, downVars, restVars, streamReqs, got, url, vmax, vattempt,
                 video_path, audio_path, final_path, move, moved, raisedBy, mux, muxFails,
                 vslept>>

\* the video page is fetched (three tries inside); the third failure raises
VFetch(ok) ==
  /\ vpc = "fetch"
  /\ mux' = "none"
  /\ got' = {}
  /\ IF ok THEN vpc' = "parse" /\ raisedBy' = raisedBy ELSE Raise("fetch")
  /\ UNCHANGED <<walkerVars, downVars, restVars, streamReqs, url, vmax, vattempt, web_title, titleReqs,
                 video_path, audio_path, final_path, move, moved, vret, muxFails, vslept>>

\* window.__playinfo__ is found and parsed, or ValueError
VParse(ok) ==
  /\ vpc = "parse"
  /\ IF ok THEN vpc' = "video" /\ raisedBy' = raisedBy ELSE Raise("parse")
  /\ UNCHANGED <<walkerVars, downVars, restVars, streamReqs, got, url, vmax, vattempt, web_title, titleReqs,
                 video_path, audio_path, final_path, move, moved, vret, mux, muxFails,
                 vslept>>

\* a call of downfile with max_retries=3 makes n requests: it returns True
\* from any of its attempts, and raises only from the last one
StreamCall(ok, n) ==
  /\ n \in 1..StreamTries
  /\ ~ok => n = StreamTries
  /\ streamReqs' = streamReqs + n

\* the audio download started whatever became of the video download
VVideo_GoOn(ok, left, n) ==
  /\ vpc = "video"
  /\ left /\ video_path' = TRUE /\ vpc' = "audio" /\ raisedBy' = raisedBy
  /\ got' = IF ok THEN got \cup {"video"} ELSE got
  /\ StreamCall(ok, n)
  /\ UNCHANGED <<walkerVars, downVars, restVars, url, vmax, vattempt, web_title, titleReqs,
                 audio_path, final_path, move, moved, vret, mux, muxFails, vslept>>

\* downfile(url, video_url, video_path, max_retries=3): True, or it raises
\* and leaves no file (left = FALSE) or a part of it (left = TRUE)
VVideo(ok, left, n) ==
  /\ vpc = "video"
  /\ IF ok
     THEN left /\ video_path' = TRUE /\ vpc' = "audio" /\ raisedBy' = raisedBy
          /\ got' = got \cup {"video"}
     ELSE (video_path => left) /\ video_path' = left /\ Raise("video") /\ got' = got
  /\ StreamCall(ok, n)
  /\ UNCHANGED <<walkerVars, downVars, restVars, url, vmax, vattempt, web_title, titleReqs,
                 audio_path, final_path, move, moved, vret, mux, muxFails, vslept>>

\* downfile(url, audio_url, audio_path, max_retries=3)
VAudio(ok, left, n) ==
  /\ vpc = "audio"
  /\ IF ok
     THEN left /\ audio_path' = TRUE /\ vpc' = "combine" /\ raisedBy' = raisedBy
          /\ got' = got \cup {"audio"}
     ELSE (audio_path => left) /\ audio_path' = left /\ Raise("audio") /\ got' = got
  /\ StreamCall(ok, n)
  /\ UNCHANGED <<walkerVars, downVars, restVars, url, vmax, vattempt, web_title, titleReqs,
                 video_path, final_path, move, moved, vret, mux, muxFails, vslept>>

\* combineVideoAudio raising on a failed mux with the temp files left in place
combineVideoAudio_NoCleanup(rc, made) ==
  /\ vpc = "combine"
  /\ LET out == final_path \/ made
     IN IF rc # 0 \/ ~out
        THEN /\ mux' = "failed"
             /\ muxFails' = muxFails + 1
             /\ UNCHANGED <<video_path, audio_path>>
             /\ final_path' = out
             /\ Raise("combine")
             /\ UNCHANGED <<moved, vret>>
        ELSE /\ mux' = "ok"
             /\ video_path' = FALSE /\ audio_path' = FALSE
             /\ final_path' = ~move
             /\ moved' = (moved \/ move)
             /\ vret' = "True"
             /\ vpc' = "done"
             /\ UNCHANGED <<raisedBy, muxFails>>
  /\ UNCHANGED <<walkerVars, downVars, restVars, streamReqs, got, url, vmax, vattempt, web_title, titleReqs, move,
                 vslept>>

\* combineVideoAudio(video_path, audio_path, final_path, safe_bvid) and the
\* return True that follows it.  rc: the mux tool's exit code; made: it wrote
\* the output file.
combineVideoAudio(rc, made) ==
  /\ vpc = "combine"
  /\ IF ~video_path \/ ~audio_path
     THEN \* "音视频文件不存在": raised to the outer except, which cleans up
          /\ rc = 0 /\ ~made
          /\ video_path' = FALSE /\ audio_path' = FALSE
          /\ Raise("combine")
          /\ UNCHANGED <<final_path, moved, vret, mux, muxFails>>
     ELSE LET out == final_path \/ made
          IN IF rc # 0 \/ ~out
             THEN /\ mux' = "failed"
                  /\ muxFails' = muxFails + 1
                  /\ video_path' = FALSE /\ audio_path' = FALSE
                  /\ final_path' = out
                  /\ Raise("combine")
                  /\ UNCHANGED <<moved, vret>>
             ELSE /\ mux' = "ok"
                  /\ video_path' = FALSE /\ audio_path' = FALSE
                  \* move_files(outpath, dyid) when configured
                  /\ final_path' = ~move
                  /\ moved' = (moved \/ move)
                  /\ vret' = "True"
                  /\ vpc' = "done"
                  /\ UNCHANGED <<raisedBy, muxFails>>
  /\ UNCHANGED <<walkerVars, downVars, restVars, streamReqs, got, url, vmax, vattempt, web_title, titleReqs, move,
                 vslept>>

\* the wait between whole-video attempts without the cap
VideoWait_Uncapped(n) == 10 * (n + 1)

\* wait_time = min(10 * (attempt + 1), 60) (line 670)
VideoWait(n) == Min(10 * (n + 1), 60)

\* the except clause of downvideo without the removal of the temp files
VExcept_NoCleanup ==
  /\ vpc = "raised"
  /\ IF vattempt < vmax - 1
     THEN /\ vslept' = Append(vslept, VideoWait(vattempt))
          /\ vattempt' = vattempt + 1
          /\ vpc' = "fetch"
          /\ vret' = vret
     ELSE /\ vret' = "False"
          /\ vpc' = "done"
          /\ UNCHANGED <<vslept, vattempt>>
  /\ UNCHANGED <<walkerVars, downVars, restVars, streamReqs, got, url, vmax, web_title, titleReqs, final_path, move,
                 moved, raisedBy, mux, muxFails, video_path, audio_path>>

\* the except clause of downvideo: temp files removed, then wait and retry,
\* or return False
VExcept ==
  /\ vpc = "raised"
  /\ video_path' = FALSE
  /\ audio_path' = FALSE
  /\ IF vattempt < vmax - 1
     THEN /\ vslept' = Append(vslept, VideoWait(vattempt))
          /\ vattempt' = vattempt + 1
          /\ vpc' = "fetch"
          /\ vret' = vret
     ELSE /\ vret' = "False"
          /\ vpc' = "done"
          /\ UNCHANGED <<vslept, vattempt>>
  /\ UNCHANGED <<walkerVars, downVars, restVars, streamReqs, got, url, vmax, web_title, titleReqs, final_path, move,
                 moved, raisedBy, mux, muxFails>>

\* downvideo is called; temp files and an output file of an earlier call
\* may be there
InitVideo ==
  /\ WalkerIdle
  /\ DownIdle
  /\ RestIdle
  /\ url \in {"", "https://www.bilibili.com/video/bvid/"}
  /\ vmax \in 1..MaxDownTries
  /\ vattempt = 0
  /\ vpc = "call"
  /\ web_title = ""
  /\ titleReqs = 0
  /\ video_path \in BOOLEAN
  /\ audio_path \in BOOLEAN
  /\ final_path \in BOOLEAN
  /\ move \in BOOLEAN
  /\ moved = FALSE
  /\ vret = "running"
  /\ raisedBy = "none"
  /\ mux = "none"
  /\ muxFails = 0
  /\ vslept = <<>>
  /\ streamReqs = 0 /\ got = {}

NextVideo ==
  \/ VCall
  \/ \E ok \in BOOLEAN : VTitle(ok)
  \/ \E ok \in BOOLEAN : VFetch(ok)
  \/ \E ok \in BOOLEAN : VParse(ok)
  \/ \E ok, left \in BOOLEAN, n \in 1..StreamTries : VVideo(ok, left, n)
  \/ \E ok, left \in BOOLEAN, n \in 1..StreamTries : VAudio(ok, left, n)
  \/ \E rc \in {0, 1}, made \in BOOLEAN : combineVideoAudio(rc, made)
  \/ VExcept

SpecVideo == InitVideo /\ [][NextVideo]_vars


\* ------------------------------------------------------------------ SpecMove
\* the files downimage may have left in the working directory: the extension
\* is that of the image's url
Images == {"1_001.jpg", "2_001.jpg", "3_001.png"}

\* glob.glob(os.path.join(img_dir, "*.jpg"))
Glob(files) == files \cap {"1_001.jpg", "2_001.jpg"}

\* the except clause around the whole of move_files: log and return
MoveFails(what) ==
  /\ mvfailed' = mvfailed \cup {what}
  /\ mvlog' = Append(mvlog, "failed: " \o what)
  /\ mvpc' = "done"

\* move_files up to the for loop over the images: final_dir is tested and the
\* video is moved.  fail: makedirs or shutil.move raises.
MoveVideo(fail) ==
  /\ mvpc = "call"
  /\ IF ~final_dir
     THEN /\ ~fail
          /\ mvpc' = "done"
          /\ UNCHANGED <<upid_dir, dest, globbed, mvfailed, mvlog>>
     ELSE IF mv_video = "missing"
     THEN /\ ~fail
          /\ mvlog' = Append(mvlog, "missing: video")
          /\ globbed' = Glob(work)
          /\ mvpc' = "images"
          /\ UNCHANGED <<upid_dir, dest, mvfailed>>
     ELSE IF mv_video = "present"
     THEN IF fail
          THEN /\ MoveFails("video")
               /\ upid_dir' \in {upid_dir, TRUE}
               /\ UNCHANGED <<dest, globbed>>
          ELSE /\ upid_dir' = TRUE
               /\ dest' = dest \cup {"video"}
               /\ mvlog' = Append(mvlog, "moved: video")
               /\ globbed' = Glob(work)
               /\ mvpc' = "images"
               /\ UNCHANGED mvfailed
     ELSE /\ ~fail
          /\ globbed' = Glob(work)
          /\ mvpc' = "images"
          /\ UNCHANGED <<upid_dir, dest, mvfailed, mvlog>>
  /\ UNCHANGED <<walkerVars, downVars, videoVars, driverVars, sanVars, threadVars, mv_video, final_dir, work,
                 startWork>>

\* one pass of the for loop over the images: shutil.move(img_file, dest_img),
\* which raises when final_dir/<upid> does not exist or when fail
MoveImage(f, fail) ==
  /\ mvpc = "images"
  /\ f \in globbed
  /\ IF fail \/ ~upid_dir
     THEN /\ MoveFails(f)
          /\ UNCHANGED <<work, dest, globbed>>
     ELSE /\ work' = work \ {f}
          /\ dest' = dest \cup {f}
          /\ globbed' = globbed \ {f}
          /\ mvlog' = Append(mvlog, "moved: " \o f)
          /\ UNCHANGED <<mvpc, mvfailed>>
  /\ UNCHANGED <<walkerVars, downVars, videoVars, driverVars, sanVars, threadVars, mv_video, final_dir,
                 upid_dir, startWork>>

\* the for loop is over: move_files returns
MoveReturn ==
  /\ mvpc = "images"
  /\ globbed = {}
  /\ mvpc' = "done"
  /\ UNCHANGED <<walkerVars, downVars, videoVars, driverVars, sanVars, threadVars, mv_video, final_dir,
                 upid_dir, work, dest, globbed, mvfailed, mvlog, startWork>>

\* move_files is called
InitMove ==
  /\ WalkerIdle
  /\ DownIdle
  /\ VideoIdle
  /\ DriverIdle
  /\ SanIdle
  /\ ThreadIdle
  /\ mvpc = "call"
  /\ mv_video \in {"None", "missing", "present"}
  /\ final_dir \in BOOLEAN
  /\ upid_dir \in BOOLEAN
  /\ work \in SUBSET Images
  /\ dest = {}
  /\ globbed = {}
  /\ mvfailed = {}
  /\ mvlog = <<>>
  /\ startWork = work

NextMove ==
  \/ \E fail \in BOOLEAN : MoveVideo(fail)
  \/ \E f \in Images, fail \in BOOLEAN : MoveImage(f, fail)
  \/ MoveReturn

SpecMove == InitMove /\ [][NextMove]_vars


\* ------------------------------------------------------------------ SpecDriver
\* The calls start() makes, through getdata, of downimage and of downvideo
\* and its two downfile calls, with the response streams they hold open.
Kinds == {"img", "video", "audio"}

\* the destination of the current item's file of a kind: <upid>/<id>_001.<ext>,
\* <upid>/<bvid>_video.tmp, <upid>/<bvid>_audio.tmp
Path(kind) == [up |-> bupid[dup], id |-> dleft, kind |-> kind]

\* a driver that starts a download while another one is streaming
MayCall_Always == dpc \in {"call", "stream"}

\* a download function is called, or an attempt of its loop starts, when the
\* call or attempt before it is over: the calls are plain method calls
MayCall == dpc = "call"

\* getdata(upid) finds n new items on the producer's pages
DGetdata(n) ==
  /\ dpc = "for"
  /\ dup <= Len(bupid)
  /\ dleft' = n
  /\ dpc' = "item"
  /\ UNCHANGED <<walkerVars, downVars, videoVars, moveVars, sanVars, threadVars, dup, dcalls, dattempt,
                 streams, fsize>>

\* the for loop of start() is over: sleep, and the while loop goes round
DForEnd ==
  /\ dpc = "for"
  /\ dup > Len(bupid)
  /\ dup' = 1
  /\ UNCHANGED <<walkerVars, downVars, videoVars, moveVars, sanVars, threadVars, dpc, dleft, dcalls,
                 dattempt, streams, fsize>>

\* the for loop of getdata reaches a new item: calls are the files it has
\* (none, images, images and a video), sizes what is at their destinations
DItem(calls, sizes) ==
  /\ dpc = "item"
  /\ dleft > 0
  /\ dcalls' = calls
  /\ fsize' = sizes
  /\ dattempt' = 0
  /\ dpc' = "call"
  /\ UNCHANGED <<walkerVars, downVars, videoVars, moveVars, sanVars, threadVars, dup, dleft, streams>>

\* the item's downloads are over: the for loop of getdata goes on
DItemDone ==
  /\ dpc = "call"
  /\ dcalls = <<>>
  /\ dleft' = dleft - 1
  /\ dpc' = "item"
  /\ UNCHANGED <<walkerVars, downVars, videoVars, moveVars, sanVars, threadVars, dup, dcalls, dattempt,
                 streams, fsize>>

\* getdata returns: time.sleep(5) and the next producer
DReturn ==
  /\ dpc = "item"
  /\ dleft = 0
  /\ dup' = dup + 1
  /\ dpc' = "for"
  /\ UNCHANGED <<walkerVars, downVars, videoVars, moveVars, sanVars, threadVars, dleft, dcalls, dattempt,
                 streams, fsize>>

\* an attempt starts: downfile reads the size of its destination and opens
\* the response; downimage asks for the image and opens its file with 'wb'
DBegin ==
  /\ MayCall
  /\ dcalls # <<>>
  /\ LET k == Head(dcalls)
     IN /\ streams' = streams \cup
                      {[path |-> Path(k), read |-> IF k = "img" THEN 0 ELSE fsize[k],
                        wrote |-> 0]}
        /\ fsize' = IF k = "img" THEN [fsize EXCEPT ![k] = 0] ELSE fsize
  /\ dpc' = "stream"
  /\ UNCHANGED <<walkerVars, downVars, videoVars, moveVars, sanVars, threadVars, dup, dleft, dcalls, dattempt>>

\* a chunk of an open stream is written to its destination
DChunk ==
  /\ dpc = "stream"
  /\ \E s \in streams :
       /\ fsize[s.path.kind] < SrcLen
       /\ fsize' = [fsize EXCEPT ![s.path.kind] = @ + 1]
       /\ streams' = (streams \ {s}) \cup {[s EXCEPT !.wrote = @ + 1]}
  /\ UNCHANGED <<walkerVars, downVars, videoVars, moveVars, sanVars, threadVars, dpc, dup, dleft, dcalls,
                 dattempt>>

\* a stream ends.  A whole file: the next call of the item.  A failed image:
\* the exception leaves start().  A failed attempt of downfile: the next
\* attempt, or after the last one downvideo removes the temp files and (again)
\* starts over or gives up.
DEnd(again) ==
  /\ dpc = "stream"
  /\ \E s \in streams :
       LET k == s.path.kind
       IN /\ streams' = streams \ {s}
          /\ IF fsize[k] = SrcLen /\ s.wrote > 0
             THEN /\ ~again
                  /\ dcalls' = Tail(dcalls)
                  /\ dattempt' = 0
                  /\ dpc' = "call"
                  /\ fsize' = fsize
             ELSE IF k = "img"
             THEN /\ ~again
                  /\ dpc' = "end"
                  /\ UNCHANGED <<dcalls, dattempt, fsize>>
             ELSE IF dattempt + 1 < MaxTries
             THEN /\ ~again
                  /\ dattempt' = dattempt + 1
                  /\ dpc' = "call"
                  /\ UNCHANGED <<dcalls, fsize>>
             ELSE /\ dattempt' = 0
                  /\ fsize' = [fsize EXCEPT !["video"] = 0, !["audio"] = 0]
                  /\ dcalls' = IF again THEN <<"video", "audio">> ELSE <<>>
                  /\ dpc' = "call"
  /\ UNCHANGED <<walkerVars, downVars, videoVars, moveVars, sanVars, threadVars, dup, dleft>>

\* start() begins its for loop
InitDriver ==
  /\ WalkerIdle
  /\ DownIdle
  /\ VideoIdle
  /\ MoveIdle
  /\ SanIdle
  /\ ThreadIdle
  /\ dpc = "for"
  /\ dup = 1
  /\ dleft = 0
  /\ dcalls = <<>>
  /\ dattempt = 0
  /\ streams = {}
  /\ fsize = [k \in Kinds |-> 0]

NextDriver ==
  \/ \E n \in 0..MaxNew : DGetdata(n)
  \/ DForEnd
  \/ \E calls \in {<<>>, <<"img">>, <<"img", "video", "audio">>},
        sizes \in [Kinds -> 0..SrcLen] : DItem(calls, sizes)
  \/ DItemDone
  \/ DReturn
  \/ DBegin
  \/ DChunk
  \/ \E again \in BOOLEAN : DEnd(again)

SpecDriver == InitDriver /\ [][NextDriver]_vars


\* ------------------------------------------------------------------ SpecSan
\* the characters names are made of: the nine of the character class, the
\* replacement itself, and two others
Chars == {"\\", "/", ":", "*", "?", "\"", "<", ">", "|", "_", "a", " "}

\* the character class without the backslash: '[\/:*?"<>|]' not written as a
\* raw string
Illegal_NoBackslash == {"/", ":", "*", "?", "\"", "<", ">", "|"}

\* the character class [\\/:*?"<>|] of the pattern (line 569)
Illegal == {"\\", "/", ":", "*", "?", "\"", "<", ">", "|"}

\* re.sub(r'[\\/:*?"<>|]', '_', name): the string is scanned from the left and
\* every match, one character long, is replaced by '_'
RECURSIVE sanitize_filename(_)
sanitize_filename(str) ==
  IF str = <<>> THEN <<>>
  ELSE <<IF Head(str) \in Illegal THEN "_" ELSE Head(str)>> \o sanitize_filename(Tail(str))

\* safe_title = self.sanitize_filename(web_title)
SanCall ==
  /\ spc = "call"
  /\ safe' = sanitize_filename(name)
  /\ spc' = "once"
  /\ UNCHANGED <<walkerVars, downVars, videoVars, moveVars, driverVars, threadVars, name, safe2>>

\* the function applied to its own result
SanAgain ==
  /\ spc = "once"
  /\ safe2' = sanitize_filename(safe)
  /\ spc' = "twice"
  /\ UNCHANGED <<walkerVars, downVars, videoVars, moveVars, driverVars, threadVars, name, safe>>

\* sanitize_filename is called with any name of up to MaxName characters
InitSan ==
  /\ WalkerIdle
  /\ DownIdle
  /\ VideoIdle
  /\ MoveIdle
  /\ DriverIdle
  /\ ThreadIdle
  /\ spc = "call"
  /\ name \in UNION {[1..n -> Chars] : n \in 0..MaxName}
  /\ safe = <<>>
  /\ safe2 = <<>>

NextSan == SanCall \/ SanAgain

SpecSan == InitSan /\ [][NextSan]_vars

\* ------------------------------------------------------------------ SpecLog
\* frame of the steps of add_log
LogFrame == UNCHANGED <<walkerVars, downVars, videoVars, moveVars, driverVars, sanVars,
                        guiVars, monVars>>

\* self.logs.append(log_entry) (line 91)
LAppend(t) ==
  /\ lpc[t] = "idle"
  /\ nextLog <= MaxAdds
  /\ logs' = Append(logs, nextLog)
  /\ nextLog' = nextLog + 1
  /\ lpc' = [lpc EXCEPT ![t] = "len"]
  /\ UNCHANGED atReturn
  /\ LogFrame

\* if len(self.logs) > 1000 (line 94): on to the pop, or add_log returns
LLen(t) ==
  /\ lpc[t] = "len"
  /\ IF Len(logs) > LogLimit
     THEN lpc' = [lpc EXCEPT ![t] = "pop"] /\ UNCHANGED atReturn
     ELSE lpc' = [lpc EXCEPT ![t] = "idle"] /\ atReturn' = logs
  /\ UNCHANGED <<logs, nextLog>>
  /\ LogFrame

\* self.logs.pop(0) (line 95), and add_log returns
LPop(t) ==
  /\ lpc[t] = "pop"
  /\ logs' = Tail(logs)
  /\ lpc' = [lpc EXCEPT ![t] = "idle"]
  /\ atReturn' = logs'
  /\ UNCHANGED nextLog
  /\ LogFrame

\* a BilibiliCache whose monitor thread and caller both log
InitLog ==
  /\ WalkerIdle
  /\ DownIdle
  /\ VideoIdle
  /\ MoveIdle
  /\ DriverIdle
  /\ SanIdle
  /\ GuiIdle
  /\ MonIdle
  /\ LogIdle

NextLog == \E t \in LogThreads : LAppend(t) \/ LLen(t) \/ LPop(t)

SpecLog == InitLog /\ [][NextLog]_vars

\* ------------------------------------------------------------------ SpecGui
\* frame of the steps of the GUI and of its run_dynamic threads
GuiFrame == UNCHANGED <<walkerVars, downVars, videoVars, moveVars, driverVars, sanVars,
                        logVars, monVars>>

\* run_dynamic threads started so far
Started == pending + nextChild - 1

\* start_dynamic (lines 525-562) with a login: it returns at once when
\* is_running is set, else starts a run_dynamic thread and sets is_running
GStart ==
  /\ ~is_running
  /\ Started < MaxStarts
  /\ pending' = pending + 1
  /\ is_running' = TRUE
  /\ UNCHANGED <<dynamic_process, alive, nextChild>>
  /\ GuiFrame

\* run_dynamic (lines 590-597): the thread starts the child and stores it
GPopen ==
  /\ pending > 0
  /\ pending' = pending - 1
  /\ alive' = alive \cup {nextChild}
  /\ dynamic_process' = nextChild
  /\ nextChild' = nextChild + 1
  /\ UNCHANGED is_running
  /\ GuiFrame

\* a Dynamic.py child ends by itself; its thread leaves the loop at line 599
GChildExit(c) ==
  /\ c \in alive
  /\ alive' = alive \ {c}
  /\ UNCHANGED <<is_running, dynamic_process, pending, nextChild>>
  /\ GuiFrame

\* stop_dynamic (lines 564-585).  win32: taskkill is called and its result
\* ignored; otherwise os.kill raises for a child that has ended, and the
\* except clause leaves is_running and dynamic_process as they are.
GStop(win32) ==
  /\ is_running
  /\ IF dynamic_process # 0 /\ dynamic_process \notin alive /\ ~win32
     THEN UNCHANGED <<is_running, dynamic_process, alive>>
     ELSE /\ alive' = alive \ {dynamic_process}
          /\ dynamic_process' = 0
          /\ is_running' = FALSE
  /\ UNCHANGED <<pending, nextChild>>
  /\ GuiFrame

\* the GUI after __init__
InitGui ==
  /\ WalkerIdle
  /\ DownIdle
  /\ VideoIdle
  /\ MoveIdle
  /\ DriverIdle
  /\ SanIdle
  /\ LogIdle
  /\ MonIdle
  /\ GuiIdle

NextGui ==
  \/ GStart
  \/ GPopen
  \/ \E c \in 1..MaxStarts : GChildExit(c)
  \/ \E win32 \in BOOLEAN : GStop(win32)

SpecGui == InitGui /\ [][NextGui]_vars

\* ------------------------------------------------------------------ SpecMon
\* frame of the steps of the monitor and of the calls that start and stop it
MonFrame == UNCHANGED <<walkerVars, downVars, videoVars, moveVars, driverVars, sanVars,
                        logVars, guiVars>>

\* the monitor_dynamics threads that were started and have not returned
Looping == {t \in MonThreads : mpc[t] \notin {"none", "exited"}}

\* thread t goes to position p
Goto(t, p) == mpc' = [mpc EXCEPT ![t] = p]

\* start_dynamic_monitor (lines 202-211): nothing when running is set, else
\* running is set and a new thread starts monitor_dynamics
MStart ==
  /\ ~running
  /\ \E t \in MonThreads :
       /\ mpc[t] = "none"
       /\ \A o \in MonThreads : mpc[o] = "none" => t <= o
       /\ Goto(t, "while")
  /\ running' = TRUE
  /\ UNCHANGED <<stopSeen, lateDown>>
  /\ MonFrame

\* stop_dynamic_monitor (lines 213-217): nothing when running is clear, else
\* running is cleared
MStop ==
  /\ running
  /\ running' = FALSE
  /\ stopSeen' = stopSeen \cup Looping
  /\ UNCHANGED <<mpc, lateDown>>
  /\ MonFrame

\* toggle_running (lines 219-224)
MToggle == IF running THEN MStop ELSE MStart

\* while self.running (line 228)
MWhile(t) ==
  /\ mpc[t] = "while"
  /\ Goto(t, IF running THEN "for" ELSE "exited")
  /\ UNCHANGED <<running, stopSeen, lateDown>>
  /\ MonFrame

\* for uid in self.config['bupid'] (lines 230-235): the list is used up, or
\* running is clear and the loop is left, or get_dynamic is called for the
\* next producer and returns items or none
MFor(t, more, got_items) ==
  /\ mpc[t] = "for"
  /\ Goto(t, IF ~more \/ ~running THEN "sleep"
             ELSE IF got_items THEN "item" ELSE "for")
  /\ UNCHANGED <<running, stopSeen, lateDown>>
  /\ MonFrame

\* for item in items[:3] (lines 239-242): the items are used up, or running
\* is clear and the inner loop is left, or the next item is a video or not
MItem(t, more, av) ==
  /\ mpc[t] = "item"
  /\ Goto(t, IF ~more \/ ~running THEN "for"
             ELSE IF av THEN "down" ELSE "item")
  /\ UNCHANGED <<running, stopSeen, lateDown>>
  /\ MonFrame

\* self.download_video(bvid) (lines 243-245)
MDownload(t) ==
  /\ mpc[t] = "down"
  /\ Goto(t, "item")
  /\ lateDown' = IF t \in stopSeen THEN lateDown \cup {t} ELSE lateDown
  /\ UNCHANGED <<running, stopSeen>>
  /\ MonFrame

\* time.sleep(self.config['interval-sec']) is over (line 248)
MSleep(t) ==
  /\ mpc[t] = "sleep"
  /\ Goto(t, "while")
  /\ UNCHANGED <<running, stopSeen, lateDown>>
  /\ MonFrame

\* a BilibiliCache after __init__
InitMon ==
  /\ WalkerIdle
  /\ DownIdle
  /\ VideoIdle
  /\ MoveIdle
  /\ DriverIdle
  /\ SanIdle
  /\ LogIdle
  /\ GuiIdle
  /\ MonIdle

NextMon ==
  \/ MStart
  \/ MStop
  \/ MToggle
  \/ \E t \in MonThreads :
       \/ MWhile(t)
       \/ \E more, got_items \in BOOLEAN : MFor(t, more, got_items)
       \/ \E more, av \in BOOLEAN : MItem(t, more, av)
       \/ MDownload(t)
       \/ MSleep(t)

SpecMon == InitMon /\ [][NextMon]_vars

\* ================================================================== claims
\* the in-memory ledger getdata tests membership against while it runs
runMem == startMem

\* events of the run logged after its last page request
LastPage(log) ==
  IF \E i \in 1..Len(log) : log[i].e = "page"
  THEN CHOOSE i \in 1..Len(log) : log[i].e = "page" /\ \A j \in (i + 1)..Len(log) : log[j].e # "page"
  ELSE 0
AfterLastPage(log) == SubSeq(log, LastPage(log) + 1, Len(log))
PageCount(log) == Cardinality({i \in 1..Len(log) : log[i].e = "page"})

\* C1: when getdata runs for a producer whose previous run returned and whose
\* feed has not changed since, and no request or file operation has failed
\* so far, it appends no row to the ledger and starts no download.
C1_Idempotent ==
  (second /\ faults = 0) => ~HasEv(runLog, {"row", "img", "video"})

\* C3: a page whose first item is pinned, read while the in-memory ledger is
\* non-empty and holds the ids of its first two items, is not scanned: no item
\* of it is ledgered, commented or downloaded.
C3_Case ==
  /\ outcome \in {"running", "stopped"}
  /\ Len(items) >= 2
  /\ items[1].tag = "pinned"
  /\ runMem # <<>>
  /\ items[1].id_str \in Range(runMem)
  /\ items[2].id_str \in Range(runMem)

C3_PinnedBoundary ==
  C3_Case => /\ pc # "scan"
             /\ todo = <<>>
             /\ ~HasEv(AfterLastPage(runLog), {"row", "permission", "comment", "img", "video"})

\* the boundary fired on a page whose third item is not in the ledger, and
\* getdata returned
C3_Witness ==
  /\ C3_Case
  /\ outcome = "stopped"
  /\ Len(items) >= 3
  /\ items[3].id_str \notin Range(runMem)
  /\ items[3].id_str \notin Range(ReadIds(disk[runUp]))

\* C5: a sync that starts on an empty ledger and reads a single page of new,
\* non-pinned text posts leaves exactly their ids, oldest first, in the ledger
\* file and in memory, and requests no image and no video.
C5_Case ==
  /\ outcome = "exhausted"
  /\ ~runFault
  /\ startDisk = <<>>
  /\ startMem = <<>>
  /\ PageCount(runLog) = 1
  /\ items # <<>>
  /\ \A i \in 1..Len(items) : items[i].type = "DYNAMIC_TYPE_WORD" /\ items[i].tag # "pinned"

FeedIds(its) == [i \in 1..Len(its) |-> its[i].id_str]

C5_TextPosts ==
  C5_Case => /\ ReadIds(disk[runUp]) = Reverse(FeedIds(items))
             /\ dyidlist[runUp] = Reverse(FeedIds(items))
             /\ ~HasEv(runLog, {"img", "video"})

\* two text posts were ledgered on an empty ledger with autodownload set
C5_Witness == C5_Case /\ Len(items) = 2 /\ CONFIG.autodownload /\ CONFIG.downatfirst

\* C7: no step of the program rewrites or removes a row of a ledger file: the
\* rows before the step are a prefix of the rows after it.
C7_AppendOnly == [][\A u \in Ups : IsPrefix(disk[u], disk'[u])]_vars

\* a ledger file that was appended to in a sync and that already held a row
C7_Witness ==
  /\ outcome = "exhausted"
  /\ startDisk # <<>>
  /\ Len(disk[runUp]) > Len(startDisk)

\* C8: an item whose classification raises is skipped: getdata stays in its
\* loop over the page (or goes on to the next page or producer).
C8_ClassifyErrorSkipped == dali.raised => pc \in {"scan", "page", "next", "top"}

\* C9: a transport error on a page request of getdata ends that producer's
\* sync only: start() goes on with the next producer.
C9_TransportErrorContained == outcome = "transport" => pc \in {"next", "top"}

WellFormed(item) ==
  CASE item.type = "DYNAMIC_TYPE_AV" -> item.major = "full"
    [] item.type \in {"DYNAMIC_TYPE_DRAW", "DYNAMIC_TYPE_WORD", "DYNAMIC_TYPE_FORWARD"} ->
         item.desc = "text"
    [] OTHER -> TRUE

C6_Totality ==
  (pc = "classified" /\ WellFormed(cur)) =>
    /\ ~dali.raised
    /\ dali.da.id = cur.id_str
    /\ dali.da.aid = cur.comment_id_str
    /\ dali.da.comment_type = cur.comment_type
    /\ dali.da.type = cur.type
    /\ (cur.type = "DYNAMIC_TYPE_DRAW" /\ cur.major = "null") => dali.da.imagepath = <<>>

\* an image post with a caption and a null major block was classified
C6_Witness ==
  /\ pc = "classified"
  /\ cur.type = "DYNAMIC_TYPE_DRAW"
  /\ cur.major = "null"
  /\ cur.desc = "text"
  /\ dali.da.text = "desc.text"

\* C2: an attempt of downfile that finds N bytes at the destination asks for
\* the range starting at N, what it receives is appended after those N bytes,
\* and when downfile returns True the file holds exactly the source.
C2_Resume ==
  /\ attempt > 0 => /\ before.exists => sent = Len(before.bytes)
                    /\ file.bytes = before.bytes \o received
  /\ ret = "True" => file = File(Source)

\* downfile found a proper, non-empty part of the source, was cut once more
\* and returned True
C2_Witness ==
  /\ ret = "True"
  /\ initFile.exists
  /\ Len(initFile.bytes) \in 1..(SrcLen - 1)
  /\ attempt >= 2
  /\ Len(before.bytes) > Len(initFile.bytes)

\* C4: when the mux tool exits non-zero or leaves no output file,
\* combineVideoAudio raises, neither temp file exists after it nor after the
\* attempt of downvideo, downvideo does not return True for that attempt, and
\* it returns False when every attempt failed this way.
C4_MuxCleanup ==
  /\ mux = "failed" => /\ vpc \in {"raised", "fetch", "done"}
                       /\ raisedBy = "combine"
                       /\ ~video_path /\ ~audio_path
                       /\ vret # "True"
  /\ (vpc = "done" /\ muxFails = vmax) => vret = "False"

\* every one of three attempts failed at the mux and downvideo has returned
C4_Witness ==
  /\ vpc = "done"
  /\ vmax = 3
  /\ muxFails = vmax
  /\ vret = "False"
  /\ ~video_path /\ ~audio_path

\* C11: once init() has succeeded the polling loop of start() never ends: no
\* error raised while a producer is synced leaves the loop.
C11_LoopNeverEnds == pc # "crashed"

\* the page just read, while getdata is still in the call that read it or
\* has returned from it by the stop rule
PageRead == outcome \in {"running", "stopped"} /\ PageCount(runLog) > 0 /\ items # <<>>

\* C12: when the first item of the page just read is not pinned, the
\* in-memory ledger is non-empty and holds that item's id, getdata stops: the
\* page is not scanned, no item of it is ledgered and no further page is asked
\* for.
C12_Case ==
  /\ PageRead
  /\ items[1].tag # "pinned"
  /\ runMem # <<>>
  /\ items[1].id_str \in Range(runMem)

C12_PlainStopRule ==
  C12_Case => /\ pc \notin {"scan", "page"}
              /\ ~HasEv(AfterLastPage(runLog), {"row", "permission", "sleep"})

\* C13: when getdata has returned after a completed sync, by the stop rule or
\* by page exhaustion, the producer's in-memory ledger holds exactly the ids
\* of its ledger file.
C13_LedgerRefreshed ==
  outcome \in {"stopped", "exhausted"} => dyidlist[runUp] = ReadIds(disk[runUp])

\* C14: the id of an item whose row could not be written (PermissionError) is
\* in the producer's in-memory ledger for the rest of the run.
C14_PermissionLedgered ==
  \A i \in 1..Len(runLog) :
    (runLog[i].e = "permission" /\ outcome = "running") =>
      runLog[i].id \in Range(dyidlist[runUp])

\* C15: when downvideo has returned for a non-empty url, with True or with
\* False, neither temp file exists, whichever step failed.
C15_TempFilesGone ==
  (vpc = "done" /\ url # "") => /\ vret \in {"True", "False"}
                                /\ ~video_path
                                /\ ~audio_path

\* downvideo gave up after an attempt whose audio stream failed, that is
\* with the video temp file of that attempt written
C15_Witness ==
  /\ vpc = "done"
  /\ url # ""
  /\ vret = "False"
  /\ raisedBy = "audio"
  /\ vattempt >= 1

\* the content-length of the response to the last attempt's request plus the
\* bytes that were on disk when the attempt started
Expected == Len(Serve(sent).body) + Len(before.bytes)

\* C16: an attempt of downfile succeeds only if the file is as long as the
\* reported remaining length plus the bytes that were there; on a mismatch
\* the attempt fails, the file is kept, and the next attempt asks for the
\* range that starts at the file's size.
C16_IntegrityCheck ==
  /\ [](/\ ret = "True" => Len(file.bytes) = Expected
        /\ err = "ValueError" => /\ Len(file.bytes) # Expected
                                 /\ ret # "True"
                                 /\ file = File(before.bytes \o received))
  /\ [][(err = "ValueError" /\ attempt' = attempt + 1) => sent' = Len(file.bytes)]_vars

\* a stream that ended short was appended to a part of the source that was
\* there, and the attempt failed the size test
C16_Witness ==
  /\ err = "ValueError"
  /\ ret = "running"
  /\ before.exists
  /\ Len(before.bytes) > 0
  /\ received # <<>>

\* C17: called with max_retries >= 1, downfile makes at most max_retries
\* requests and has ended after the last one; when every attempt failed it
\* has raised (it has not returned True) and the file at the destination is
\* what the attempts left there.
C17_BoundedAttempts ==
  max_retries >= 1 =>
    /\ attempt <= max_retries
    /\ ret \in {"running", "True", "raise"}
    /\ attempt = max_retries => ret # "running"
    /\ ret = "True" => err = "none"
    /\ ret = "raise" => /\ attempt = max_retries
                        /\ err # "none"
                        /\ file.bytes = before.bytes \o received
                        /\ initFile.exists => IsPrefix(initFile.bytes, file.bytes)

\* every one of at least two attempts failed and the part of the source the
\* attempts wrote is at the destination, which was absent before the call
C17_Witness ==
  /\ ret = "raise"
  /\ max_retries >= 2
  /\ attempt = max_retries
  /\ ~initFile.exists
  /\ file.exists
  /\ file.bytes # <<>>

\* C18: move_files never raises, a missing video is logged and the images
\* are still moved, and a file whose move fails does not keep the other image
\* files from being moved: when move_files has returned, every image file the
\* directory scan finds has been moved, but for those whose own move failed.
C18_BestEffortPerFile ==
  (mvpc = "done" /\ final_dir) => \A f \in Glob(startWork) : f \in dest \/ f \in mvfailed

\* no move failed but for want of the directory final_dir/<upid>
NoBrokenMove == mvfailed = {} \/ (mvfailed \subseteq Images /\ ~upid_dir)

\* C19: after move_files with a non-empty final_dir, every image file of the
\* working directory is in final_dir/<upid> and none is left, also for
\* video_path None and a final_dir/<upid> that did not exist.
C19_ImagesRelocated ==
  (mvpc = "done" /\ final_dir /\ NoBrokenMove) =>
    /\ work = {}
    /\ startWork \subseteq dest

Duplicate(rows, i, j) == i < j /\ rows[i].id = rows[j].id

\* C21: an item of an unsupported type is ledgered, with its id and the id of
\* its comment area, the first time it is seen and never again: no ledger
\* file holds two rows for it, as long as no request or file operation fails.
C21_UnsupportedOnce ==
  faults = 0 =>
    \A u \in Ups : \A i, j \in 1..Len(disk[u]) :
      Duplicate(disk[u], i, j) => disk[u][i].type # "DYNAMIC_TYPE_ARTICLE"

\* the requests of the while loop of getdata (line 454) in a call's history
PageRequests(log) == {i \in 1..Len(log) : log[i].e = "page"}

\* C24: within one getdata call the fixed delay (time.sleep(5), line 544) lies
\* between any two consecutive page requests of the loop: no two of them are
\* issued back to back.
C24_InterPageDelay ==
  \A i, j \in PageRequests(runLog) :
    i < j => \E k \in (i + 1)..(j - 1) : runLog[k].e = "sleep"

\* the rows written and the downloads started by one getdata call while the
\* page read last was being scanned
Effects(log) ==
  {i \in 1..Len(log) : log[i].e \in {"row", "img", "video"} /\ i > LastPage(log)}

\* C22: oldest first: of two new items of one page the older one (the smaller
\* id: ids grow with the time of publication) has its row appended and its
\* downloads started before the newer one.
C22_OldestFirst ==
  \A i, j \in Effects(runLog) : i < j => runLog[i].id <= runLog[j].id

\* the feed requests of a call: the one before the loop (line 446) and those
\* of the loop
FeedRequests(log) == {i \in 1..Len(log) : log[i].e \in {"probe", "page"}}

\* the request of the set reqs made last before request j (0: there is none)
PrevRequest(reqs, j) ==
  LET earlier == {i \in reqs : i < j}
  IN IF earlier = {} THEN 0 ELSE CHOOSE i \in earlier : \A k \in earlier : k <= i

\* every request of reqs after its first carries the cursor returned by the
\* response to the request before it
Chained(reqs) ==
  \A j \in reqs :
    LET i == PrevRequest(reqs, j)
    IN i # 0 => runLog[j].id = ResponseOffset(runUp, runLog[i].id)

\* a call asks for no more pages than the feed has items, plus one
FewRequests == PageCount(runLog) <= Len(feed[runUp]) + 1

\* the scan cannot go on: the ledger file has reached the bound MaxRows
LedgerFull == pc = "scan" /\ todo # <<>> /\ Len(disk[up]) >= MaxRows

C25_Case ==
  /\ pc = "page"
  /\ runLog' # runLog
  /\ Len(items') >= 2
  /\ items'[1].tag = "pinned"
  /\ items'[1].id_str \in Range(dyidlist[up])
  /\ items'[2].id_str \in Range(dyidlist[up])

\* C25: when the pinned boundary test fires, getdata stops if and only if
\* the server reported no more pages; otherwise, without scanning the page, it
\* goes back to the request with the cursor the response returned, and that
\* request is sent with this cursor and its page put to the boundary test.
C25_PinnedContinuation ==
  [][/\ C25_Case =>
          /\ (~has_more' <=> (pc' = "next" /\ outcome' = "stopped"))
          /\ has_more' => (pc' = "page" /\ outcome' = "running"
                           /\ offset' = ResponseOffset(up, offset))
          /\ todo' = <<>> /\ disk' = disk
     /\ (pc = "page" /\ runLog' # runLog) =>
          /\ runLog'[Len(runLog) + 1] = Ev("page", offset)
          /\ items' = PageItems(up, offset)
          /\ (pc' = "scan") <=> (Boundary(items', dyidlist[up]) = "scan")]_vars

\* the pinned test fired on the first page, more pages followed and the next
\* page was asked for with the cursor
C25_Witness ==
  /\ runUp # 0
  /\ pinned[runUp] # 0
  /\ \E i \in 1..(Len(runLog) - 2) :
       /\ runLog[i] = Ev("page", 0)
       /\ runLog[i + 1].e = "log"
       /\ runLog[i + 2].e = "page" /\ runLog[i + 2].id # 0

\* the wait the statement gives for the k-th failed attempt
BackoffOf(kind, k) ==
  IF kind = "Timeout" THEN (IF 5 * k < 30 THEN 5 * k ELSE 30) ELSE 5

VideoBackoff(k) == IF 10 * k < 60 THEN 10 * k ELSE 60

\* C27: downvideo makes at most max_retries whole-video attempts and waits
\* min(10k, 60) seconds after the k-th failed one, not after the last; every
\* attempt makes at most StreamTries requests for each of the two streams (18
\* in all for max_retries = 3); the call goes on until it has returned, and
\* what it returns is True or False.
C27_TwoRetryLayers ==
  /\ vattempt < vmax
  /\ vslept = [k \in 1..vattempt |-> VideoBackoff(k)]
  /\ streamReqs <= 2 * StreamTries * (vattempt + 1)
  /\ vmax = 3 => streamReqs <= 18
  /\ vret \in {"running", "True", "False"}
  /\ (vpc = "done") <=> (vret # "running")
  /\ vpc # "done" => ENABLED NextVideo

\* called with max_retries = 3, downvideo gave up after three attempts that
\* each asked three times for both streams, with waits of 10 and 20 seconds
C27_Witness ==
  /\ vmax = 3 /\ vpc = "done" /\ vret = "False"
  /\ vattempt = 2 /\ streamReqs = 18 /\ vslept = <<10, 20>>

\* C28: inside one attempt of downvideo the audio download starts only after
\* the video download of that attempt returned True, the mux tool runs only
\* after both downloads of that attempt returned True, and downvideo returns
\* True only from an attempt whose mux did not fail.
C28_AssemblyOrder ==
  /\ vpc = "audio" => got = {"video"}
  /\ vpc = "combine" => got = {"video", "audio"}
  /\ mux \in {"ok", "failed"} => got = {"video", "audio"}
  /\ vret = "True" => mux = "ok" /\ got = {"video", "audio"}

\* a second attempt, begun after the video download of the first had failed,
\* got both streams, muxed them and returned True
C28_Witness ==
  /\ vret = "True" /\ mux = "ok" /\ got = {"video", "audio"}
  /\ vattempt = 1 /\ raisedBy = "video"

\* C29: get_web_title makes at most three requests and does not raise; when
\* all three fail it returns 'untitled_' followed by the content identifier,
\* and downvideo goes on: a call in which nothing but the title requests
\* failed returns True.
C29_TitleFallback ==
  /\ titleReqs <= 3
  /\ vret # "raise"
  /\ web_title \in {"", "title", "untitled_bvid"}
  /\ web_title = "untitled_bvid" => titleReqs = 3
  /\ (web_title = "" /\ url # "") => vpc \in {"call", "title"}
  /\ (vpc = "done" /\ url # "" /\ raisedBy = "none") => vret = "True"

\* all three title requests failed, the fallback name was used, and the
\* first attempt of downvideo returned True
C29_Witness ==
  /\ web_title = "untitled_bvid" /\ titleReqs = 3
  /\ vpc = "done" /\ vret = "True" /\ vattempt = 0

\* the nine characters the statement names
Forbidden == {"\\", "/", ":", "*", "?", "\"", "<", ">", "|"}

\* C30: sanitize_filename puts one underscore for each of the characters
\* \ / : * ? " < > | and leaves every other character as it is: the result is
\* as long as the name, holds none of the nine characters, and the function
\* applied to the result gives the result again.
C30_Sanitize ==
  /\ spc \in {"once", "twice"} =>
       /\ Len(safe) = Len(name)
       /\ \A i \in 1..Len(name) :
            safe[i] = IF name[i] \in Forbidden THEN "_" ELSE name[i]
       /\ \A i \in 1..Len(safe) : safe[i] \notin Forbidden
  /\ spc = "twice" => safe2 = safe

\* a name of a letter and a backslash was sanitized twice
C30_Witness ==
  /\ spc = "twice"
  /\ name = <<"a", "\\">>
  /\ safe = <<"a", "_">>
  /\ safe2 = safe

\* C31: during a sync, once the row of a new item has been appended to the
\* ledger file, the id of the item is in the producer's in-memory ledger.
C31_MemoryTracksRows ==
  outcome = "running" =>
    \A i \in 1..Len(runLog) :
      runLog[i].e = "row" => runLog[i].id \in Range(dyidlist[runUp])

\* what a step of the for loop of getdata added to the history of the call
NewEvents == SubSeq(runLog', Len(runLog) + 1, Len(runLog'))

\* C32: iscomment is cleared by init() only and set only when the for loop
\* over the producers ends, so no item ledgered in the polling cycle init()
\* ran in is commented; with iscomment set, a new item is commented exactly
\* when the autocomment text is not empty, and the comment is posted right
\* after the row is written, before the downloads of the item.
C32_CommentGate ==
  [][/\ (iscomment' /\ ~iscomment) => (pc = "next" /\ idx > Len(bupid) /\ pc' = "top")
     /\ (iscomment /\ ~iscomment') => HasEv(NewEvents, {"init"})
     /\ (pc = "scan" /\ todo # <<>> /\ runLog' # runLog) =>
          /\ NewEvents[1].e \in {"row", "permission"}
          /\ HasEv(NewEvents, {"comment"}) <=> (iscomment /\ CONFIG.autocomment # "")
          /\ HasEv(NewEvents, {"comment"}) => NewEvents[2] = Ev("comment", NewEvents[1].id)
          /\ \A i \in 2..Len(NewEvents) : NewEvents[i].id = NewEvents[1].id]_vars

\* in a later cycle a new item was ledgered, commented and then downloaded
C32_Witness ==
  /\ iscomment
  /\ \E i \in 1..(Len(runLog) - 2) :
       /\ runLog[i].e = "row"
       /\ runLog[i + 1] = Ev("comment", runLog[i].id)
       /\ runLog[i + 2] = Ev("img", runLog[i].id)

\* C33: when a call of add_log returns, self.logs holds at most the limit of
\* entries, and they are the ones appended last, in the order they were
\* appended; also with two threads inside add_log.
C33_BoundedLogs ==
  /\ Len(atReturn) <= LogLimit
  /\ \A i \in 1..Len(atReturn) : atReturn[i] = atReturn[Len(atReturn)] - Len(atReturn) + i

\* the positions of a call's history where a download of item id starts
Downloads(log, kind, id) == {i \in 1..Len(log) : log[i] = Ev(kind, id)}

\* C34: the ids of a feed are unique, so, as long as no request or file
\* operation fails, every id is in at most one row of its producer's ledger
\* file, and a sync starts the image download and the video download of an
\* item at most once.
C34_LedgerUnique ==
  faults = 0 =>
    /\ \A u \in Ups : \A i, j \in 1..Len(disk[u]) : ~Duplicate(disk[u], i, j)
    /\ \A kind \in {"img", "video"} : \A id \in 1..(MaxId + Len(bupid)) :
         Cardinality(Downloads(runLog, kind, id)) <= 1

\* C35: as long as no request or file operation fails, a download of an item
\* starts only after the row of the item was appended in the same sync, and
\* never for an item that was in the ledger file when the sync began (whose
\* download, failed or not, belongs to an earlier sync).
C35_LedgerBeforeDownload ==
  faults = 0 =>
    \A i \in 1..Len(runLog) :
      runLog[i].e \in {"img", "video"} =>
        /\ \E j \in 1..(i - 1) : runLog[j] = Ev("row", runLog[i].id)
        /\ runLog[i].id \notin Range(ReadIds(startDisk))

\* C36: with down-atfirst false in the configuration file, the first pass of
\* start() over the producers (comments are not yet enabled), when nothing
\* fails, starts no download for a producer that had no ledger file when the
\* pass reached it, whatever was ledgered for the producers before it.
C36_FirstRunPerProducer ==
  (/\ faults = 0
   /\ ~cfgfile.downatfirst
   /\ ~iscomment
   /\ runUp # 0
   /\ startDisk = <<>>) => ~HasEv(runLog, {"img", "video"})

\* C37: at most one Dynamic.py child started by the GUI is alive at a time,
\* and while is_running is False (before the first start, and after
\* stop_dynamic cleared it) none is.
C37_SingleChild ==
  /\ Cardinality(alive) <= 1
  /\ ~is_running => alive = {}

\* C38: at most one monitor_dynamics thread is in its loop at a time, and a
\* thread that was in its loop when stop_dynamic_monitor was called starts no
\* download_video afterwards.
C38_SingleMonitor ==
  /\ Cardinality(Looping) <= 1
  /\ lateDown = {}

====
